---- MODULE Spec2Model ----
(***************************************************************************)
(* Model of redshift.py: the RedshiftCalculator schedule curve, the        *)
(* `lights` registry, the on_message event handler and the main loop       *)
(* (sleep, sweep or count down, client.loop()).                            *)
(*                                                                         *)
(* Time.  The program only ever uses a light's `changed` timestamp in the  *)
(* expression (datetime.now() - changed).total_seconds(), so the model     *)
(* stores that difference, in whole seconds, instead of the timestamp:     *)
(* `changed = 0` is "changed = now", and the passage of d seconds adds d   *)
(* to every stored value.  The differences are only compared with          *)
(* config.AdjustSeconds, so they are capped at Far = AdjustSeconds + 1;    *)
(* datetime(1900,1,1), the default of a new entry, is Far.                 *)
(*                                                                         *)
(* Control.  The program has one thread: on_message only runs inside       *)
(* client.loop() (line 154), after the sleep and the sweep of the same     *)
(* pass.  time.sleep takes SleepSeconds, client.loop() between 0 and       *)
(* LoopTimeout seconds, and the handlers themselves take no time.          *)
(*                                                                         *)
(* Payload.  The running program is started with a valid anchor set, for   *)
(* which redshift() (lines 47-52) raises nothing; the value it returns is  *)
(* the payload of a publish and is not part of `pubs`, which records the   *)
(* topics only.                                                            *)
(*                                                                         *)
(* Transport.  The connection can be lost while the program sleeps or      *)
(* right after client.loop() has read a packet.  client.publish on a lost  *)
(* connection does not raise: it reports the failure in the value it       *)
(* returns, which lines 108 and 146 discard.  client.loop() on a lost      *)
(* connection calls on_disconnect.                                         *)
(*                                                                         *)
(* Numbers.  Times and values of the curve are integers and the result of  *)
(* an interpolation is the exact fraction num/den; the program computes    *)
(* the same expression in floating point.                                  *)
(***************************************************************************)
EXTENDS Integers, Sequences, FiniteSets, TLC

VARIABLES
    config,      \* config['Redshift']: AdjustSeconds, SleepSeconds, UpdateCycles
    lights,      \* the dict `lights`, in insertion order: <<[path, on, changed]>>
    wait,        \* the main loop's counter `wait`
    pc,          \* position of the main loop: "sleep", "sweep", "loop", "message"
    inbox,       \* the message client.loop() is about to hand to on_message
    pubs,        \* topics passed to client.publish by the most recent step
    sincePub,    \* per light: seconds since the last publish to <path>/set, or Never
    tick,        \* number of passes through the loop body so far (capped at MaxTick)
    last,        \* what the most recent step was, with the state it started from
    phase,       \* position in the kitchen scenario ("off" outside of it)
    elapsed,     \* scenario: seconds since the previous kitchen event (capped)
    anchors,     \* config['Redshift'] Time / ColorTemp / Brightness as loaded
    redshift,    \* the RedshiftCalculator object (NoCurve while not constructed)
    stage,       \* "config" before line 71, then "running", "crashed" or "exited"
    result,      \* what the most recent evaluation of the curve returned
    link,        \* the connection to the broker: "up" or "down"
    failed       \* some client.publish was called while the link was down

vars == <<config, lights, wait, pc, inbox, pubs, sincePub, tick, last,
          phase, elapsed, anchors, redshift, stage, result, link, failed>>

mainVars  == <<config, lights, wait, pc, inbox, pubs, sincePub, tick, last,
               link, failed>>
scenVars  == <<phase, elapsed>>
curveVars == <<anchors, redshift, stage, result>>

---------------------------------------------------------------------------
(* Bounds of the model *)

MaxAdjust == 2      \* AdjustSeconds ranges over 1..MaxAdjust
MaxSleep  == 2      \* SleepSeconds  ranges over 1..MaxSleep
MaxCycles == 3      \* UpdateCycles  ranges over 0..MaxCycles
MaxTick   == 9      \* the pass counter stops counting here
MaxLen    == 2      \* anchor lists have 0..MaxLen elements

\* The kitchen scenario: AdjustSeconds, the gap between the first and the second
\* event, and the gap between the second and the third
ScenarioAdjust == 3600
ScenarioShort  == 10
ScenarioGap    == 3601

Topics == {"kitchen", "hall"}

\* client.loop() is called without arguments: select() waits at most timeout=1.0 s
LoopTimeout == 1

Never == 0 - 1

Min(a, b) == IF a < b THEN a ELSE b

---------------------------------------------------------------------------
(* RedshiftCalculator.__init__ *)

TimeVals  == {-1, 0, 6, 22, 24, 25}
ValueVals == {1, 2}

SeqsUpTo(S, n) == UNION { [1..k -> S] : k \in 0..n }

NoResult == [hour |-> 0 - 1, error |-> "none",
             brightness |-> <<0, 1>>, colortemp |-> <<0, 1>>]

NoCurve == [ok |-> FALSE, error |-> "unbound", time |-> <<>>,
            colortemp |-> <<>>, brightness |-> <<>>]

Raise(e) == [ok |-> FALSE, error |-> e, time |-> <<>>,
             colortemp |-> <<>>, brightness |-> <<>>]

RECURSIVE SeqMin(_)
SeqMin(s) == IF Len(s) = 1 THEN s[1] ELSE Min(s[1], SeqMin(Tail(s)))

RECURSIVE SeqMax(_)
SeqMax(s) == IF Len(s) = 1 THEN s[1]
             ELSE LET m == SeqMax(Tail(s)) IN IF s[1] > m THEN s[1] ELSE m

\* line 28: all( time[i-1] < time[i] for i in range(1, len(time)) )
Ascending(time) == \A i \in 2..Len(time) : time[i-1] < time[i]

\* lines 24-45.  min() of an empty list raises ValueError, a failed assert
\* AssertionError, [0] of an empty list IndexError; the lengths of the three
\* lists are never compared.
virtual_first_early(last_time) == last_time - 25

virtual_last_same(first_time) == first_time

\* line 35: the virtual first hour
virtual_first(last_time) == last_time - 24

\* line 39: the virtual last hour
virtual_last(first_time) == first_time + 24

RedshiftCalculator(time, colortemp, brightness) ==
    IF Len(time) = 0 THEN Raise("ValueError")
    ELSE IF ~(SeqMin(time) >= 0) THEN Raise("AssertionError")
    ELSE IF ~(SeqMax(time) <= 24) THEN Raise("AssertionError")
    ELSE IF ~Ascending(time) THEN Raise("AssertionError")
    ELSE IF Len(colortemp) = 0 THEN Raise("IndexError")
    ELSE IF Len(brightness) = 0 THEN Raise("IndexError")
    ELSE
      LET first_time == time[1]
          last_time  == time[Len(time)]
          first_ct   == colortemp[1]
          last_ct    == colortemp[Len(colortemp)]
          first_bt   == brightness[1]
          last_bt    == brightness[Len(brightness)]
          pre        == time[1] > 0
          t1 == IF pre THEN <<virtual_first(last_time)>> \o time ELSE time
          c1 == IF pre THEN <<last_ct>> \o colortemp ELSE colortemp
          b1 == IF pre THEN <<last_bt>> \o brightness ELSE brightness
          post       == t1[Len(t1)] < 24
          t2 == IF post THEN Append(t1, virtual_last(first_time)) ELSE t1
          c2 == IF post THEN Append(c1, first_ct) ELSE c1
          b2 == IF post THEN Append(b1, first_bt) ELSE b1
      IN [ok |-> TRUE, error |-> "", time |-> t2, colortemp |-> c2, brightness |-> b2]

\* element k of a Python list (k counts from 0)
At(x, k) == x[k + 1]

\* bisect.bisect(x, x0, lo, hi): the insertion point to the right of x0 in
\* x[lo:hi]
RECURSIVE bisect(_, _, _, _)
bisect(x, x0, lo, hi) ==
    IF lo < hi
    THEN LET mid == (lo + hi) \div 2
         IN IF x0 < At(x, mid) THEN bisect(x, x0, lo, mid)
            ELSE bisect(x, x0, mid + 1, hi)
    ELSE lo

weighted_swapped(x0, xa, xb, ya, yb) == (x0 - xa) * ya + (xb - x0) * yb

\* lines 21-22 over the common denominator xb - xa:
\* m*yb + (1-m)*ya with m = (x0 - xa) / (xb - xa)
weighted(x0, xa, xb, ya, yb) == (x0 - xa) * yb + (xb - x0) * ya

\* lines 17-22: the value as the fraction <<num, den>>, or the exception
_interpolate(x0, x, y) ==
    LET i == bisect(x, x0, 1, Len(x) - 1)
    IN IF i >= Len(x) THEN [error |-> "IndexError", value |-> <<0, 1>>]
       ELSE IF At(x, i) - At(x, i - 1) = 0
       THEN [error |-> "ZeroDivisionError", value |-> <<0, 1>>]
       ELSE IF i >= Len(y) THEN [error |-> "IndexError", value |-> <<0, 1>>]
       ELSE [error |-> "",
             value |-> <<weighted(x0, At(x, i - 1), At(x, i), At(y, i - 1), At(y, i)),
                         At(x, i) - At(x, i - 1)>>]

\* lines 47-52 at the given hour of the day: brightness first, then colortemp
call(self, hour) ==
    LET b == _interpolate(hour, self.time, self.brightness)
        c == _interpolate(hour, self.time, self.colortemp)
    IN [hour |-> hour,
        error |-> IF b.error # "" THEN b.error ELSE c.error,
        brightness |-> IF b.error = "" THEN b.value ELSE <<0, 1>>,
        colortemp |-> IF b.error = "" /\ c.error = "" THEN c.value ELSE <<0, 1>>]

\* line 49: the hours of the day at which the curve is evaluated; the clock
\* gives 0 <= hour < 24, and 24 stands for midnight of the next day
Hours == 0..24

\* line 71: the module-level construction; an exception ends the process
Construct ==
    /\ stage = "config"
    /\ LET r == RedshiftCalculator(anchors.Time, anchors.ColorTemp, anchors.Brightness)
       IN /\ redshift' = IF r.ok THEN r ELSE NoCurve
          /\ stage' = IF r.ok THEN "running" ELSE "crashed"
          /\ last' = [last EXCEPT !.op = "construct", !.error = r.error]
    /\ UNCHANGED <<config, lights, wait, pc, inbox, pubs, sincePub, tick,
                   phase, elapsed, anchors, result, link, failed>>

---------------------------------------------------------------------------
(* The registry `lights` *)

Far == config.AdjustSeconds + 1

\* index of topic's entry in the dict, 0 when it has none
RECURSIVE IndexFrom(_, _, _)
IndexFrom(ls, topic, i) ==
    IF i > Len(ls) THEN 0
    ELSE IF ls[i].path = topic THEN i ELSE IndexFrom(ls, topic, i + 1)

Index(ls, topic) == IndexFrom(ls, topic, 1)

Known(ls, topic) == Index(ls, topic) # 0

setdefault_reset(ls, topic) ==
    IF Known(ls, topic) THEN ls
    ELSE <<[path |-> topic, on |-> FALSE, changed |-> Far]>>

\* line 100: lights.setdefault(topic, {'on': False, 'changed': datetime(1900,1,1)})
setdefault(ls, topic) ==
    IF Known(ls, topic) THEN ls
    ELSE Append(ls, [path |-> topic, on |-> FALSE, changed |-> Far])

SetTopic(topic) == topic \o "/set"

\* d seconds pass: every (now - changed) grows by d
Age(ls, d) == [i \in DOMAIN ls |-> [ls[i] EXCEPT !.changed = Min(@ + d, Far)]]

AgePub(sp, d) == [t \in Topics |-> IF sp[t] = Never THEN Never ELSE Min(sp[t] + d, Far)]

\* the publishes of one step enter the per-light record of the last publish
NotePubs(sp, ps) ==
    [t \in Topics |-> IF \E i \in DOMAIN ps : ps[i] = SetTopic(t) THEN 0 ELSE sp[t]]

---------------------------------------------------------------------------
(* on_message *)

Payloads == {"None", "garbage", "[1]", "{}", "{on:true}", "{on:false}"}

\* line 99: json.loads(message.payload).  `raised`: the text is no JSON document;
\* `object`: the document is a JSON object; `has_on`: it has the key 'on'.
json_loads(payload) ==
    CASE payload = "garbage"    -> [raised |-> TRUE,  object |-> FALSE, has_on |-> FALSE, on |-> FALSE]
      [] payload = "[1]"        -> [raised |-> FALSE, object |-> FALSE, has_on |-> FALSE, on |-> FALSE]
      [] payload = "{}"         -> [raised |-> FALSE, object |-> TRUE,  has_on |-> FALSE, on |-> FALSE]
      [] payload = "{on:true}"  -> [raised |-> FALSE, object |-> TRUE,  has_on |-> TRUE,  on |-> TRUE]
      [] payload = "{on:false}" -> [raised |-> FALSE, object |-> TRUE,  has_on |-> TRUE,  on |-> FALSE]

was_turned_on_never(new_on, old_on) == FALSE

\* line 103
was_turned_on(new_on, old_on) == new_on /\ ~old_on

needs_update_always(old_state) == TRUE

\* line 104: (datetime.now() - old_state['changed']).total_seconds() > AdjustSeconds
needs_update(old_state) == old_state.changed > config.AdjustSeconds

push_decision_new(new_on, old_state) ==
    new_on /\ (was_turned_on(new_on, new_on) \/ needs_update(old_state))

push_decision_any(new_on, old_state) ==
    was_turned_on(new_on, old_state.on) \/ needs_update(old_state)

\* line 105
push_decision(new_on, old_state) ==
    new_on /\ (was_turned_on(new_on, old_state.on) \/ needs_update(old_state))

event_publish_twice(topic) == <<SetTopic(topic), SetTopic(topic)>>

\* line 108: client.publish(topic+'/set', set_state, 0, False)
event_publish(topic) == <<SetTopic(topic)>>

\* lines 90-114 on the registry ls: the registry afterwards, the publishes made
\* and the exception the bare `except:` swallowed ("" when none was raised)
Handle(ls, topic, payload) ==
    IF payload = "None" THEN [lights |-> ls, pubs |-> <<>>, error |-> ""]
    ELSE
      LET new_state == json_loads(payload) IN
      IF new_state.raised
      THEN [lights |-> ls, pubs |-> <<>>, error |-> "JSONDecodeError"]
      ELSE
        LET l1 == setdefault(ls, topic)
            i  == Index(l1, topic)
            old_state == l1[i]
        IN IF ~new_state.object
           THEN [lights |-> l1, pubs |-> <<>>, error |-> "TypeError"]
           ELSE IF ~new_state.has_on
           THEN [lights |-> l1, pubs |-> <<>>, error |-> "KeyError"]
           ELSE
             LET push == push_decision(new_state.on, old_state)
                 l2   == IF push THEN [l1 EXCEPT ![i].changed = 0] ELSE l1
             IN [lights |-> [l2 EXCEPT ![i].on = new_state.on],
                 pubs   |-> IF push THEN event_publish(topic) ELSE <<>>,
                 error  |-> ""]

NoMessage == [topic |-> "", payload |-> ""]

\* lines 108, 146: the value client.publish returns is discarded, so a send
\* on a lost connection leaves no trace in the program
send_failed(f, ps) == f \/ (link = "down" /\ ps # <<>>)

\* the connection after a while: it may have been lost
LinkAfter == IF link = "up" THEN {"up", "down"} ELSE {"down"}

Blank == [op |-> "none", topic |-> "", payload |-> "", error |-> "",
          before |-> <<>>, since |-> [t \in Topics |-> Never], wait |-> 0]

on_message ==
    /\ stage = "running"
    /\ pc = "message"
    /\ LET r == Handle(lights, inbox.topic, inbox.payload)
       IN /\ lights' = r.lights
          /\ pubs' = r.pubs
          /\ sincePub' = NotePubs(sincePub, r.pubs)
          /\ last' = [op |-> "message", topic |-> inbox.topic,
                      payload |-> inbox.payload, error |-> r.error,
                      before |-> lights, since |-> sincePub, wait |-> wait]
          /\ failed' = send_failed(failed, r.pubs)
    /\ inbox' = NoMessage
    /\ pc' = "sleep"
    /\ UNCHANGED <<config, wait, tick, phase, elapsed, anchors, redshift, stage,
                   result, link>>

---------------------------------------------------------------------------
(* The main loop, lines 136-154 *)

Running(p) == stage = "running" /\ pc = p

\* d seconds pass
Pass(d) ==
    /\ lights' = Age(lights, d)
    /\ sincePub' = AgePub(sincePub, d)

\* the scenario's clock after d more seconds
Later(d) == IF phase = "off" THEN elapsed ELSE Min(elapsed + d, ScenarioGap + 1)

\* line 138: time.sleep(sleep_time)
Sleep ==
    /\ Running("sleep")
    /\ Pass(config.SleepSeconds)
    /\ elapsed' = Later(config.SleepSeconds)
    /\ tick' = Min(tick + 1, MaxTick)
    /\ pc' = "sweep"
    /\ pubs' = <<>>
    /\ last' = [Blank EXCEPT !.op = "sleep"]
    /\ link' \in LinkAfter
    /\ UNCHANGED <<config, wait, inbox, phase, anchors, redshift, stage, result,
                   failed>>

stale_or_due(light) == light.changed >= config.AdjustSeconds

\* line 143
stale(light) == light.changed > config.AdjustSeconds

\* the for loop without its `break`
RECURSIVE scan_all(_, _, _)
scan_all(ls, i, ps) ==
    IF i > Len(ls) THEN [lights |-> ls, pubs |-> ps]
    ELSE IF ls[i].changed > config.AdjustSeconds
         THEN scan_all([ls EXCEPT ![i].changed = 0], i + 1,
                       Append(ps, SetTopic(ls[i].path)))
         ELSE scan_all(ls, i + 1, ps)

RECURSIVE scan_forget(_, _, _)
scan_forget(ls, i, ps) ==
    IF i > Len(ls) THEN [lights |-> ls, pubs |-> ps]
    ELSE IF ls[i].changed > config.AdjustSeconds
         THEN [lights |-> ls, pubs |-> Append(ps, SetTopic(ls[i].path))]
         ELSE scan_forget(ls, i + 1, ps)

\* lines 142-148: the for loop from entry i on; it ends at the first stale entry
RECURSIVE scan(_, _, _)
scan(ls, i, ps) ==
    IF i > Len(ls) THEN [lights |-> ls, pubs |-> ps]
    ELSE IF stale(ls[i])
         THEN [lights |-> [ls EXCEPT ![i].changed = 0],
               pubs   |-> Append(ps, SetTopic(ls[i].path))]
         ELSE scan(ls, i + 1, ps)

next_wait_off(w) == IF w = 0 THEN config.UpdateCycles + 1 ELSE w - 1

\* line 149 / line 152
next_wait(w) == IF w = 0 THEN config.UpdateCycles ELSE w - 1

\* lines 140-152
Sweep ==
    /\ Running("sweep")
    /\ LET r == IF wait = 0 THEN scan(lights, 1, <<>>)
                ELSE [lights |-> lights, pubs |-> <<>>]
       IN /\ lights' = r.lights
          /\ pubs' = r.pubs
          /\ sincePub' = NotePubs(sincePub, r.pubs)
          /\ failed' = send_failed(failed, r.pubs)
    /\ wait' = next_wait(wait)
    /\ pc' = "loop"
    /\ last' = [Blank EXCEPT !.op = IF wait = 0 THEN "scan" ELSE "countdown",
                             !.before = lights, !.since = sincePub,
                             !.wait = wait]
    /\ UNCHANGED <<config, inbox, tick, phase, elapsed, anchors, redshift, stage,
                   result, link>>

\* line 154: client.loop() returns within its timeout without a PUBLISH packet
\* (select() timed out, or woke up for a packet that is no message)
LoopIdle ==
    /\ Running("loop")
    /\ link = "up"
    /\ \E d \in 0..LoopTimeout : Pass(d) /\ elapsed' = Later(d)
    /\ pc' = "sleep"
    /\ pubs' = <<>>
    /\ last' = [Blank EXCEPT !.op = "idle"]
    /\ UNCHANGED <<config, wait, inbox, tick, phase, anchors, redshift, stage,
                   result, link, failed>>

\* line 154: client.loop() reads a PUBLISH packet after waiting d seconds and
\* is about to call on_message with it
Deliver(topic, payload, d) ==
    /\ Running("loop")
    /\ link = "up"
    /\ link' \in LinkAfter
    /\ Pass(d)
    /\ inbox' = [topic |-> topic, payload |-> payload]
    /\ pc' = "message"
    /\ pubs' = <<>>
    /\ last' = [Blank EXCEPT !.op = "receive"]
    /\ UNCHANGED <<config, wait, tick, anchors, redshift, stage, result, failed>>

Receive ==
    /\ \E topic \in Topics, payload \in Payloads, d \in 0..LoopTimeout :
          Deliver(topic, payload, d)
    /\ UNCHANGED <<phase, elapsed>>

\* lines 82-84: sys.exit(1) ends the process
exit_on_disconnect == "exited"

\* line 154: client.loop() finds the connection lost (before the call, or
\* while it waits) and calls on_disconnect
on_disconnect ==
    /\ Running("loop")
    /\ link' = "down"
    /\ stage' = exit_on_disconnect
    /\ pubs' = <<>>
    /\ last' = [Blank EXCEPT !.op = "disconnect"]
    /\ UNCHANGED <<config, lights, wait, pc, inbox, sincePub, tick, phase, elapsed,
                   anchors, redshift, result, failed>>

---------------------------------------------------------------------------
(* The running program *)

ValidAnchors == [Time |-> <<6, 22>>, ColorTemp |-> <<1, 2>>, Brightness |-> <<1, 2>>]

Configs == [AdjustSeconds : 1..MaxAdjust, SleepSeconds : 1..MaxSleep,
            UpdateCycles : 0..MaxCycles]

Started(c) ==
    /\ config = c
    /\ lights = <<>>
    /\ wait = c.UpdateCycles
    /\ pc = "sleep"
    /\ inbox = NoMessage
    /\ pubs = <<>>
    /\ sincePub = [t \in Topics |-> Never]
    /\ tick = 0
    /\ last = Blank
    /\ anchors = ValidAnchors
    /\ redshift = RedshiftCalculator(anchors.Time, anchors.ColorTemp, anchors.Brightness)
    /\ stage = "running"
    /\ result = NoResult
    /\ link = "up"
    /\ failed = FALSE

Init ==
    /\ \E c \in Configs : Started(c)
    /\ phase = "off"
    /\ elapsed = 0

Next ==
    \/ Sleep
    \/ Sweep
    \/ LoopIdle
    \/ Receive
    \/ on_message
    \/ on_disconnect

Spec == Init /\ [][Next]_vars

\* the loop keeps ticking: time.sleep returns, the loop body runs on, and
\* client.loop() returns and finishes the callback it started
FairSpec ==
    /\ Init /\ [][Next]_vars
    /\ WF_vars(Sleep) /\ WF_vars(Sweep)
    /\ WF_vars(LoopIdle \/ Receive \/ on_disconnect) /\ WF_vars(on_message)

---------------------------------------------------------------------------
(* The kitchen scenario: the running program, with kitchen as its only light, *)
(* receives {on:true} for kitchen three times: at any time, ScenarioShort     *)
(* seconds later, and ScenarioGap seconds after that.                         *)

ScenarioConfigs == [AdjustSeconds : {ScenarioAdjust}, SleepSeconds : {1, 10},
                    UpdateCycles : {0, MaxCycles}]

InitScenario ==
    /\ \E c \in ScenarioConfigs : Started(c)
    /\ phase = "unseen"
    /\ elapsed = 0

KitchenFirst ==
    /\ phase = "unseen"
    /\ \E d \in 0..LoopTimeout : Deliver("kitchen", "{on:true}", d)
    /\ phase' = "first"
    /\ elapsed' = 0

KitchenSecond ==
    /\ phase = "first"
    /\ \E d \in 0..LoopTimeout :
          elapsed + d = ScenarioShort /\ Deliver("kitchen", "{on:true}", d)
    /\ phase' = "second"
    /\ elapsed' = 0

KitchenThird ==
    /\ phase = "second"
    /\ \E d \in 0..LoopTimeout :
          elapsed + d = ScenarioGap /\ Deliver("kitchen", "{on:true}", d)
    /\ phase' = "third"
    /\ elapsed' = 0

NextScenario ==
    \/ Sleep
    \/ Sweep
    \/ LoopIdle
    \/ KitchenFirst
    \/ KitchenSecond
    \/ KitchenThird
    \/ on_message
    \/ on_disconnect

SpecScenario == InitScenario /\ [][NextScenario]_vars

---------------------------------------------------------------------------
(* Start-up: the construction of the curve from the loaded configuration *)

AnchorSets == [Time : SeqsUpTo(TimeVals, MaxLen),
               ColorTemp : SeqsUpTo(ValueVals, MaxLen),
               Brightness : SeqsUpTo(ValueVals, MaxLen)]

InitCurve ==
    /\ anchors \in AnchorSets
    /\ redshift = NoCurve
    /\ stage = "config"
    /\ config = [AdjustSeconds |-> 1, SleepSeconds |-> 1, UpdateCycles |-> 0]
    /\ lights = <<>>
    /\ wait = 0
    /\ pc = "sleep"
    /\ inbox = NoMessage
    /\ pubs = <<>>
    /\ sincePub = [t \in Topics |-> Never]
    /\ tick = 0
    /\ last = Blank
    /\ phase = "off"
    /\ elapsed = 0
    /\ result = NoResult
    /\ link = "up"
    /\ failed = FALSE

\* lines 106, 145: redshift() on the constructed curve
Evaluate ==
    /\ stage = "running"
    /\ \E hour \in Hours : result' = call(redshift, hour)
    /\ UNCHANGED <<config, lights, wait, pc, inbox, pubs, sincePub, tick, last,
                   phase, elapsed, anchors, redshift, stage, link, failed>>

NextCurve == Construct \/ Evaluate

SpecCurve == InitCurve /\ [][NextCurve]_vars

---------------------------------------------------------------------------
(* Properties of the event handler and the sweep *)

IsOn(ls, topic) == Known(ls, topic) /\ ls[Index(ls, topic)].on

Entry(ls, topic) == ls[Index(ls, topic)]

PublishedTo(ps, topic) == \E i \in DOMAIN ps : ps[i] = topic \o "/set"

Malformed(payload) == payload \in {"garbage", "[1]", "{}"}

\* C1: an on=true event for a light that is off in the registry, or that the
\* registry has never seen, publishes exactly one message, to <topic>/set,
\* whatever AdjustSeconds is and however recently the light was pushed.
C1_TurnOnPushesOnce ==
    [][ (pc = "message" /\ inbox.payload = "{on:true}" /\ ~IsOn(lights, inbox.topic))
          => pubs' = <<inbox.topic \o "/set">> ]_vars

\* an off light, pushed less than AdjustSeconds ago, was turned on and pushed
C1_Witness ==
    /\ last.op = "message" /\ last.payload = "{on:true}"
    /\ Known(last.before, last.topic)
    /\ ~Entry(last.before, last.topic).on
    /\ Entry(last.before, last.topic).changed < config.AdjustSeconds
    /\ pubs = <<last.topic \o "/set">>

\* C2: a repeated on=true event for a light that is on publishes once and sets
\* changed to now when the light was changed more than AdjustSeconds ago, and
\* publishes nothing and keeps changed when it was changed less than
\* AdjustSeconds ago.
C2_RepeatedOnDebounced ==
    [][ (pc = "message" /\ inbox.payload = "{on:true}" /\ IsOn(lights, inbox.topic))
          => LET old == Entry(lights, inbox.topic)
                 new == Entry(lights', inbox.topic)
             IN /\ old.changed > config.AdjustSeconds
                     => pubs' = <<inbox.topic \o "/set">> /\ new.changed = 0
                /\ old.changed < config.AdjustSeconds
                     => pubs' = <<>> /\ new.changed = old.changed ]_vars

\* a light that is on and was last pushed more than AdjustSeconds ago got a
\* repeated on=true event, was pushed and has changed = now
C2_Witness ==
    /\ last.op = "message" /\ last.payload = "{on:true}"
    /\ IsOn(last.before, last.topic)
    /\ Entry(last.before, last.topic).changed > config.AdjustSeconds
    /\ last.since[last.topic] # Never
    /\ pubs = <<last.topic \o "/set">>
    /\ Entry(lights, last.topic).changed = 0

\* a light that is on and was pushed less than AdjustSeconds ago got a repeated
\* on=true event and was not pushed
C2_WitnessDebounced ==
    /\ last.op = "message" /\ last.payload = "{on:true}"
    /\ IsOn(last.before, last.topic)
    /\ Entry(last.before, last.topic).changed < config.AdjustSeconds
    /\ pubs = <<>>

\* C3 as claimed: in the running system the first kitchen event publishes once
\* to kitchen/set, the second, ScenarioShort seconds later, publishes nothing,
\* and the third, ScenarioGap seconds after the second, publishes once.
C3_ScenarioAsClaimed ==
    [][ pc = "message"
          => /\ phase = "first"  => pubs' = <<"kitchen/set">>
             /\ phase = "second" => pubs' = <<>>
             /\ phase = "third"  => pubs' = <<"kitchen/set">> ]_vars

\* C3 amended: the third event publishes once if the last publish to
\* kitchen/set is more than AdjustSeconds old, that is if no sweep has pushed
\* kitchen since the second event, and publishes nothing if a sweep has.
C3_ScenarioUnlessSwept ==
    [][ pc = "message"
          => /\ phase = "first"  => pubs' = <<"kitchen/set">>
             /\ phase = "second" => pubs' = <<>>
             /\ phase = "third"  =>
                  pubs' = IF sincePub["kitchen"] > config.AdjustSeconds
                          THEN <<"kitchen/set">> ELSE <<>> ]_vars

\* the third event was handled and published
C3_Witness ==
    /\ phase = "third" /\ last.op = "message"
    /\ pubs = <<"kitchen/set">>

\* the third event was handled and published nothing: a sweep had pushed
\* kitchen less than AdjustSeconds before
C3_WitnessSwept ==
    /\ phase = "third" /\ last.op = "message"
    /\ pubs = <<>>
    /\ last.since["kitchen"] <= config.AdjustSeconds

\* C4 as claimed: any two consecutive publishes to the same <topic>/set are
\* more than AdjustSeconds apart.
C4_MinimumInterval ==
    [][ \A t \in Topics :
          (PublishedTo(pubs', t) /\ sincePub[t] # Never)
              => sincePub[t] > config.AdjustSeconds ]_vars

\* C4 amended: two consecutive publishes to the same <topic>/set are more than
\* AdjustSeconds apart unless the later one is the event handler's push for an
\* on=true event of a light whose registry state is off.
C4_MinimumIntervalButTurnOn ==
    [][ \A t \in Topics :
          (/\ PublishedTo(pubs', t)
           /\ sincePub[t] # Never
           /\ ~(pc = "message" /\ inbox.topic = t /\ ~IsOn(lights, t)))
              => sincePub[t] > config.AdjustSeconds ]_vars

\* a light that had been pushed before was pushed again by a sweep
C4_Witness ==
    /\ last.op = "scan"
    /\ \E t \in Topics : PublishedTo(pubs, t) /\ last.since[t] # Never

\* C5 as claimed: with UpdateCycles = 3 the sweep scan runs on the passes 3, 6,
\* 9, ... of the loop body and on no other pass.
C5_ScanEveryThirdTick ==
    (config.UpdateCycles = 3 /\ last.op \in {"scan", "countdown"} /\ tick < MaxTick)
        => (last.op = "scan" <=> tick % 3 = 0)

\* C6: a sweep publishes for the first entry, in the order of the registry,
\* that was changed more than AdjustSeconds ago, sets its changed to now and
\* touches no other entry; without such an entry it publishes nothing.
C6_SweepPushesFirstStaleOnly ==
    [][ (pc = "sweep" /\ wait = 0)
          => LET S == {i \in DOMAIN lights : lights[i].changed > config.AdjustSeconds}
             IN IF S = {}
                THEN pubs' = <<>> /\ lights' = lights
                ELSE \E f \in S :
                       /\ \A j \in S : f <= j
                       /\ pubs' = <<lights[f].path \o "/set">>
                       /\ lights' = [lights EXCEPT ![f].changed = 0] ]_vars

\* a sweep found two stale entries and pushed one
C6_Witness ==
    /\ last.op = "scan"
    /\ Cardinality({i \in DOMAIN last.before :
                       last.before[i].changed > config.AdjustSeconds}) >= 2
    /\ Len(pubs) = 1

\* C8 as claimed: handling a malformed event leaves the registry as it was and
\* publishes nothing.
C8_MalformedLeavesRegistry ==
    [][ (pc = "message" /\ Malformed(inbox.payload))
          => lights' = lights /\ pubs' = <<>> ]_vars

\* C9: handling one event publishes nothing or exactly one message, and that
\* one to the event's topic followed by "/set".
C9_AtMostOnePublishToOwnTopic ==
    [][ pc = "message"
          => pubs' = <<>> \/ pubs' = <<inbox.topic \o "/set">> ]_vars

\* an event was handled and published to its own topic while the registry
\* holds another light
C9_Witness ==
    /\ last.op = "message"
    /\ pubs = <<last.topic \o "/set">>
    /\ Len(lights) = 2

\* C7 as claimed: every light in the registry whose last change is more than
\* AdjustSeconds old is eventually pushed, as long as the loop keeps ticking
\* (the process has not ended on a lost connection).
C7_NoStarvation ==
    \A t \in Topics :
        (Known(lights, t) /\ Entry(lights, t).changed > config.AdjustSeconds)
            ~> (PublishedTo(pubs, t) \/ stage = "exited")

---------------------------------------------------------------------------
(* Properties of the construction of the curve *)

InRange(time) == \A i \in DOMAIN time : 0 <= time[i] /\ time[i] <= 24

ValidAnchorSet(a) ==
    /\ Len(a.Time) = Len(a.ColorTemp)
    /\ Len(a.Time) = Len(a.Brightness)
    /\ Len(a.Time) >= 1
    /\ InRange(a.Time)
    /\ \A i \in 2..Len(a.Time) : a.Time[i-1] < a.Time[i]

\* C10 as claimed: for every invalid anchor set (lists of unequal length, empty
\* lists, a time outside [0,24], times not strictly increasing) the
\* construction fails and no curve is constructed.
C10_InvalidAnchorsRejected ==
    (stage # "config" /\ ~ValidAnchorSet(anchors))
        => (stage = "crashed" /\ redshift = NoCurve)

---------------------------------------------------------------------------
(* Properties of the transport *)

\* C11 as claimed: a transport failure is fatal.  Once a push has been sent
\* on a lost connection the process handles no further event and runs no
\* further pass of the scheduler: the only step it still takes is to end.
C11_FailedSendIsFatal ==
    [][ (failed /\ stage = "running")
          => /\ ~(pc = "message" /\ pc' = "sleep")
             /\ ~(pc = "sweep" /\ pc' = "loop") ]_vars

---------------------------------------------------------------------------
(* Properties of the evaluation of the curve *)

Evaluated == stage = "running" /\ result.hour >= 0

\* the fraction v equals the number n
Equals(v, n) == v[2] # 0 /\ v[1] = n * v[2]

\* C12: for a valid anchor set, evaluating the curve at the time of one of
\* its anchors returns that anchor's colortemp and brightness.
C12_AnchorsReturned ==
    (Evaluated /\ ValidAnchorSet(anchors))
        => \A k \in DOMAIN anchors.Time :
              anchors.Time[k] = result.hour
                  => /\ result.error = ""
                     /\ Equals(result.colortemp, anchors.ColorTemp[k])
                     /\ Equals(result.brightness, anchors.Brightness[k])

\* the curve was evaluated at its second anchor, whose values differ from
\* the first anchor's
C12_Witness ==
    /\ Evaluated /\ ValidAnchorSet(anchors)
    /\ Len(anchors.Time) = 2
    /\ anchors.Time[2] = result.hour
    /\ anchors.ColorTemp[1] # anchors.ColorTemp[2]
    /\ anchors.Brightness[1] # anchors.Brightness[2]
    /\ Equals(result.colortemp, anchors.ColorTemp[2])

\* the fractions v and w are the same number
SameFraction(v, w) == v[2] # 0 /\ w[2] # 0 /\ v[1] * w[2] = w[1] * v[2]

\* the straight line from (last, value_last) to (first + 24, value_first) at
\* x, as a fraction
WrapSegment(time, value, x) ==
    LET t_first == time[1]
        t_last  == time[Len(time)]
    IN <<(x - t_last) * value[1] + (t_first + 24 - x) * value[Len(value)],
         t_first + 24 - t_last>>

WrapsMidnight(a) ==
    ValidAnchorSet(a) /\ a.Time[1] > 0 /\ a.Time[Len(a.Time)] < 24

\* where on the wrap segment the hour h lies
WrapHour(a, h) == IF h < a.Time[1] THEN h + 24 ELSE h

\* C13: for a valid anchor set with first time > 0 and last time < 24, the
\* curve at an hour before the first anchor is the wrap segment at hour + 24,
\* at an hour from the last anchor on it is the wrap segment at that hour,
\* and the curve at hour 0 equals the curve at hour 24.
C13_ConsistentAcrossMidnight ==
    (Evaluated /\ WrapsMidnight(anchors))
        => /\ (result.hour < anchors.Time[1]
                 \/ result.hour >= anchors.Time[Len(anchors.Time)])
               => /\ result.error = ""
                  /\ SameFraction(result.colortemp,
                        WrapSegment(anchors.Time, anchors.ColorTemp,
                                    WrapHour(anchors, result.hour)))
                  /\ SameFraction(result.brightness,
                        WrapSegment(anchors.Time, anchors.Brightness,
                                    WrapHour(anchors, result.hour)))
           /\ SameFraction(call(redshift, 0).colortemp, call(redshift, 24).colortemp)
           /\ SameFraction(call(redshift, 0).brightness, call(redshift, 24).brightness)

\* the curve was evaluated before the first anchor, strictly inside a wrap
\* segment whose two ends differ in value
C13_Witness ==
    /\ Evaluated /\ WrapsMidnight(anchors)
    /\ result.hour < anchors.Time[1]
    /\ result.hour + 24 > anchors.Time[Len(anchors.Time)]
    /\ anchors.ColorTemp[1] # anchors.ColorTemp[Len(anchors.ColorTemp)]
    /\ ~Equals(result.colortemp, anchors.ColorTemp[1])
    /\ ~Equals(result.colortemp, anchors.ColorTemp[Len(anchors.ColorTemp)])

---------------------------------------------------------------------------
(* Properties of the registry *)

WellFormed(payload) == payload \in {"{on:true}", "{on:false}"}

\* the on flag a well-formed payload carries
NewOnFlag(payload) == payload = "{on:true}"

\* the registry holds nothing newer than AdjustSeconds for the topic
Overdue(ls, topic) ==
    ~Known(ls, topic) \/ Entry(ls, topic).changed > config.AdjustSeconds

\* C14: after a well-formed event is handled the registry's on flag for its
\* topic is the event's on flag, with or without a push; and the event pushes
\* exactly when its flag is on and the flag stored before it was off (or
\* absent) or the light was overdue.
C14_FlagStoredAfterDecision ==
    [][ (pc = "message" /\ WellFormed(inbox.payload))
          => /\ Known(lights', inbox.topic)
             /\ Entry(lights', inbox.topic).on = NewOnFlag(inbox.payload)
             /\ (pubs' # <<>>) =
                   (NewOnFlag(inbox.payload)
                      /\ (~IsOn(lights, inbox.topic) \/ Overdue(lights, inbox.topic)))
       ]_vars

\* an on=true event for a light stored as off and pushed less than
\* AdjustSeconds ago was pushed, and the light is now stored as on
C14_Witness ==
    /\ last.op = "message" /\ last.payload = "{on:true}"
    /\ Known(last.before, last.topic)
    /\ ~Entry(last.before, last.topic).on
    /\ ~Overdue(last.before, last.topic)
    /\ pubs # <<>>
    /\ Entry(lights, last.topic).on

\* an on=true event for a light stored as on was not pushed, and the light
\* is still stored as on
C14_WitnessNoPush ==
    /\ last.op = "message" /\ last.payload = "{on:true}"
    /\ IsOn(last.before, last.topic)
    /\ pubs = <<>>
    /\ Entry(lights, last.topic).on

\* C15: an on=false event publishes nothing and leaves the light's changed as
\* it was, whatever the registry held for the light; so an on=true event for
\* a light stored as off is pushed even when the light's last push is no
\* older than AdjustSeconds.
C15_OffEventKeepsChanged ==
    [][ pc = "message"
          => /\ inbox.payload = "{on:false}"
                => /\ pubs' = <<>>
                   /\ Known(lights, inbox.topic)
                        => Entry(lights', inbox.topic).changed
                             = Entry(lights, inbox.topic).changed
                   /\ ~Entry(lights', inbox.topic).on
             /\ (inbox.payload = "{on:true}" /\ Known(lights, inbox.topic)
                   /\ ~Entry(lights, inbox.topic).on
                   /\ sincePub[inbox.topic] # Never
                   /\ sincePub[inbox.topic] <= config.AdjustSeconds)
                => pubs' = <<inbox.topic \o "/set">> ]_vars

\* an on=false event reached a light that was on and overdue: nothing was
\* published and changed is still beyond AdjustSeconds
C15_Witness ==
    /\ last.op = "message" /\ last.payload = "{on:false}"
    /\ IsOn(last.before, last.topic)
    /\ Overdue(last.before, last.topic)
    /\ pubs = <<>>
    /\ Entry(lights, last.topic).changed = Entry(last.before, last.topic).changed

\* a light stored as off whose last push is no older than AdjustSeconds got
\* an on=true event and was pushed again
C15_WitnessOffOn ==
    /\ last.op = "message" /\ last.payload = "{on:true}"
    /\ Known(last.before, last.topic)
    /\ ~Entry(last.before, last.topic).on
    /\ last.since[last.topic] # Never
    /\ last.since[last.topic] <= config.AdjustSeconds
    /\ pubs = <<last.topic \o "/set">>

\* what the registry holds as changed for the topic, the default of line 100
\* when it holds nothing
ChangedOf(ls, topic) == IF Known(ls, topic) THEN Entry(ls, topic).changed ELSE Far

\* the two registries hold the same lights in the same order with the same
\* on flags
SameLights(l1, l2) ==
    /\ Len(l1) = Len(l2)
    /\ \A i \in DOMAIN l1 : l1[i].path = l2[i].path /\ l1[i].on = l2[i].on

\* C16: in a step of the event handler or of the scheduler a light's changed
\* is set to now when the step publishes to the light's /set topic and stays
\* what it was when it does not; the steps in which time passes publish
\* nothing and write no changed; and the scheduler keeps every on flag and
\* the set of entries.
C16_ChangedIffPublished ==
    [][ /\ pc \in {"message", "sweep"}
          => \A t \in Topics :
                Known(lights', t)
                  => Entry(lights', t).changed
                       = IF PublishedTo(pubs', t) THEN 0 ELSE ChangedOf(lights, t)
        /\ pc \in {"sleep", "loop"}
          => /\ pubs' = <<>>
             /\ \E d \in 0..(MaxSleep + LoopTimeout) : lights' = Age(lights, d)
        /\ pc = "sweep" => SameLights(lights, lights') ]_vars

\* a pass of the scheduler pushed the first of two overdue lights: its
\* changed is now, the other's is as before, both on flags are as before
C16_Witness ==
    /\ last.op = "scan"
    /\ Len(lights) = 2
    /\ Overdue(last.before, lights[1].path)
    /\ Overdue(last.before, lights[2].path)
    /\ pubs = <<lights[1].path \o "/set">>
    /\ lights[1].changed = 0
    /\ lights[2].changed = last.before[2].changed
    /\ SameLights(last.before, lights)

\* C17: handling an event for a topic, well-formed or not, leaves the entry
\* (on flag and changed) of every other light as it was and adds no entry for
\* another topic; the process keeps running and goes back to its main loop,
\* where it handles the events that follow.
C17_OtherLightsUntouched ==
    [][ pc = "message"
          => /\ \A t \in Topics \ {inbox.topic} :
                   /\ Known(lights', t) = Known(lights, t)
                   /\ Known(lights, t) => Entry(lights', t) = Entry(lights, t)
             /\ stage' = "running"
             /\ pc' = "sleep" ]_vars

\* a malformed event for a new topic was handled while the registry held
\* another light, which is on and whose entry is as before
C17_Witness ==
    /\ last.op = "message" /\ Malformed(last.payload)
    /\ ~Known(last.before, last.topic)
    /\ \E t \in Topics \ {last.topic} :
          /\ IsOn(last.before, t)
          /\ Entry(lights, t) = Entry(last.before, t)
    /\ stage = "running"

\* C18 as claimed: colour is only adjusted on lights which are on.  Whenever
\* a step publishes to <topic>/set, the event that triggered it carries
\* on=true or the registry holds the light as on.
C18_OnlyLightsThatAreOn ==
    [][ \A t \in Topics :
          PublishedTo(pubs', t)
            => \/ pc = "message" /\ inbox.topic = t /\ inbox.payload = "{on:true}"
               \/ IsOn(lights, t) ]_vars

---------------------------------------------------------------------------
(* Properties of the scheduler's counter *)

\* C19: the counter stays within 0..UpdateCycles; a pass that finds it above
\* 0 lowers it by one, publishes nothing and leaves the registry alone; a
\* pass that finds it at 0 scans, publishing exactly when some light is
\* stale, and sets it to UpdateCycles either way.
C19_CounterBounded ==
    /\ [](0 <= wait /\ wait <= config.UpdateCycles)
    /\ [][ pc = "sweep"
             => IF wait > 0
                THEN wait' = wait - 1 /\ pubs' = <<>> /\ lights' = lights
                ELSE /\ wait' = config.UpdateCycles
                     /\ (pubs' # <<>>)
                          = (\E i \in DOMAIN lights :
                                lights[i].changed > config.AdjustSeconds) ]_vars

\* a pass found the counter at 0 and no light stale in a registry that holds
\* one, and set the counter to a positive UpdateCycles
C19_Witness ==
    /\ last.op = "scan" /\ last.wait = 0
    /\ Len(lights) >= 1
    /\ pubs = <<>>
    /\ wait = config.UpdateCycles
    /\ wait > 0

\* a pass found the counter above 0 with a stale light in the registry and
\* only lowered the counter
C19_WitnessCountdown ==
    /\ last.op = "countdown"
    /\ wait = last.wait - 1
    /\ \E i \in DOMAIN lights : lights[i].changed > config.AdjustSeconds
    /\ pubs = <<>>

---------------------------------------------------------------------------
(* Properties of the normalized curve *)

\* the interval of the normalized times into which line 20 puts the hour
IntervalOf(self, hour) == bisect(self.time, hour, 1, Len(self.time) - 1)

\* C20: for a valid anchor set the construction succeeds, the normalized
\* times are strictly increasing, start at or before 0 and end at or after
\* 24, the three normalized lists are equally long, every hour in [0,24) lies
\* in an interval time[i-1] <= hour < time[i] with 1 <= i <= n-1, and the
\* evaluation raises nothing.
C20_NormalizedCoversDay ==
    (stage # "config" /\ ValidAnchorSet(anchors))
        => LET n == Len(redshift.time)
           IN /\ redshift.ok /\ stage = "running"
              /\ Ascending(redshift.time)
              /\ n >= 2
              /\ redshift.time[1] <= 0
              /\ redshift.time[n] >= 24
              /\ Len(redshift.colortemp) = n
              /\ Len(redshift.brightness) = n
              /\ \A hour \in Hours \ {24} :
                    LET i == IntervalOf(redshift, hour)
                    IN /\ 1 <= i /\ i <= n - 1
                       /\ At(redshift.time, i - 1) <= hour
                       /\ hour < At(redshift.time, i)
                       /\ call(redshift, hour).error = ""
              /\ Evaluated => result.error = "" /\ result.colortemp[2] # 0

\* a curve built from a single anchor inside the day, which got both virtual
\* anchors, was evaluated
C20_Witness ==
    /\ Evaluated /\ ValidAnchorSet(anchors)
    /\ Len(anchors.Time) = 1
    /\ Len(redshift.time) = 3
    /\ result.error = ""

\* a curve built from anchors at 0 and at 24, which got no virtual anchor,
\* was evaluated
C20_WitnessFullDay ==
    /\ Evaluated /\ ValidAnchorSet(anchors)
    /\ anchors.Time = <<0, 24>>
    /\ redshift.time = <<0, 24>>
    /\ result.error = ""

====
